---- MODULE Spec2Model ----
(***************************************************************************)
(* Model of news.py: the single-run pipeline                               *)
(*   config check -> fetch feed -> extract articles -> summarize ->        *)
(*   synthesize speech -> deliver audio, or the narrative as text.         *)
(* Text is a sequence of code points; every remote answer is an input      *)
(* drawn from a small set.                                                 *)
(***************************************************************************)
EXTENDS Integers, Sequences, FiniteSets, TLC

VARIABLES
    pc,                     \* position of the process in __main__ / main()
    now,                    \* fetch_rss_entries: now (hours since the epoch, UTC)
    cfg,                    \* which of the five required secrets are non-empty
    feed_data,              \* fetch_rss_entries: feed_data.entries
    utcoffset,              \* fetch_rss_entries: offset of the local zone (hours)
    recent_entries,         \* main: recent_entries
    remaining,              \* main: entries the extraction loop has yet to visit
    all_extracted_text,     \* main: all_extracted_text
    narrative,              \* main: narrative
    audio_caption_summary,  \* main: audio_caption_summary
    audio_data,             \* main: audio_data
    audio_sent,             \* main: audio_sent
    i,                      \* main: loop variable of the chunk loop
    exc,                    \* the exception propagating out of main(), if any
    log                     \* every outward call and pause, in program order

vars == <<pc, now, cfg, feed_data, utcoffset, recent_entries, remaining,
          all_extracted_text, narrative, audio_caption_summary, audio_data,
          audio_sent, i, exc, log>>

-----------------------------------------------------------------------------
(* Bounds of the model *)

MaxEntries == 2

-----------------------------------------------------------------------------
(* Text *)

NL == 10

NoNewArticles == <<78, 111, 32, 110, 101, 119, 32, 97, 114, 116, 105, 99, 108, 101, 115, 32, 102, 111, 117, 110, 100, 32, 105, 110, 32, 116, 104, 101, 32, 82, 83, 83, 32, 102, 101, 101, 100, 32, 105, 110, 32, 116, 104, 101, 32, 108, 97, 115, 116, 32, 50, 52, 32, 104, 111, 117, 114, 115, 46>>

NoTextExtracted == <<70, 111, 117, 110, 100, 32, 114, 101, 99, 101, 110, 116, 32, 97, 114, 116, 105, 99, 108, 101, 115, 44, 32, 98, 117, 116, 32, 99, 111, 117, 108, 100, 32, 110, 111, 116, 32, 101, 120, 116, 114, 97, 99, 116, 32, 116, 101, 120, 116, 32, 99, 111, 110, 116, 101, 110, 116, 46>>

fallback_text == <<70, 97, 105, 108, 101, 100, 32, 116, 111, 32, 103, 101, 110, 101, 114, 97, 116, 101, 32, 97, 110, 32, 65, 73, 32, 110, 101, 119, 115, 32, 115, 117, 109, 109, 97, 114, 121, 46, 32, 78, 111, 32, 117, 112, 100, 97, 116, 101, 32, 99, 111, 117, 108, 100, 32, 98, 101, 32, 112, 114, 111, 100, 117, 99, 101, 100, 46>>

\* "Your 24hr News Summary:\n"
CaptionHeader == <<89, 111, 117, 114, 32, 50, 52, 104, 114, 32, 78, 101, 119, 115, 32, 83, 117, 109, 109, 97, 114, 121, 58, 10>>

\* "..."
Ellipsis == <<46, 46, 46>>

\* "[Part " and "]\n"
PartOpen == <<91, 80, 97, 114, 116, 32>>

PartClose == <<93, 10>>

\* "CRITICAL ERROR in news bot: " and ". Check logs."
CriticalPrefix == <<67, 82, 73, 84, 73, 67, 65, 76, 32, 69, 82, 82, 79, 82, 32, 105, 110, 32, 110, 101, 119, 115, 32, 98, 111, 116, 58, 32>>

CriticalSuffix == <<46, 32, 67, 104, 101, 99, 107, 32, 108, 111, 103, 115, 46>>

\* "Summary X"
SummaryX == <<83, 117, 109, 109, 97, 114, 121, 32, 88>>

\* str(e) of the two exceptions a response body can raise
JsonErrText == <<69, 120, 112, 101, 99, 116, 105, 110, 103, 32, 118, 97, 108, 117, 101, 58, 32, 108, 105, 110, 101, 32, 49, 32, 99, 111, 108, 117, 109, 110, 32, 49, 32, 40, 99, 104, 97, 114, 32, 48, 41>>

AttrErrText == <<39, 108, 105, 115, 116, 39, 32, 111, 98, 106, 101, 99, 116, 32, 104, 97, 115, 32, 110, 111, 32, 97, 116, 116, 114, 105, 98, 117, 116, 101, 32, 39, 103, 101, 116, 39>>

Min(a, b) == IF a <= b THEN a ELSE b

\* s[lo:hi] of Python, 0-based, hi exclusive, clipped to the string
Slice(s, lo, hi) == SubSeq(s, lo + 1, Min(hi, Len(s)))

\* str(n) for n >= 0
RECURSIVE Decimal(_)
Decimal(n) == IF n < 10 THEN <<48 + n>> ELSE Decimal(n \div 10) \o <<48 + (n % 10)>>

IsSpace(c) == c \in {9, 10, 11, 12, 13, 32}

\* s.strip() is non-empty
StripNonEmpty(s) == \E k \in 1..Len(s) : ~IsSpace(s[k])

\* s.split('\n')[0]
FirstLine(s) ==
    IF \E k \in 1..Len(s) : s[k] = NL
    THEN SubSeq(s, 1, (CHOOSE k \in 1..Len(s) : s[k] = NL /\ \A j \in 1..(k - 1) : s[j] # NL) - 1)
    ELSE s

\* A text of n characters whose content varies with the position, with a
\* line break at position nl (none when nl = 0).
Text(n, nl) == [k \in 1..n |-> IF k = nl THEN NL ELSE 65 + (k % 26)]

-----------------------------------------------------------------------------
(* Configuration *)

Secrets == {"BOT_TOKEN", "CHAT_ID", "DS_API_KEY", "ELEVENLABS_API_KEY", "ELEVENLABS_VOICE_ID"}

\* Every assignment of "non-empty" / "empty" to the five secrets
Configs == [Secrets -> BOOLEAN]

\* all([BOT_TOKEN, CHAT_ID, DS_API_KEY, ELEVENLABS_API_KEY, ELEVENLABS_VOICE_ID])
ConfigComplete_missingVoice(c) ==
    c["BOT_TOKEN"] /\ c["CHAT_ID"] /\ c["DS_API_KEY"] /\ c["ELEVENLABS_API_KEY"]

ConfigComplete(c) ==
    c["BOT_TOKEN"] /\ c["CHAT_ID"] /\ c["DS_API_KEY"] /\ c["ELEVENLABS_API_KEY"]
        /\ c["ELEVENLABS_VOICE_ID"]

-----------------------------------------------------------------------------
(* HTTP *)

\* What the wire can answer to one request: a transport error, or a status
\* with a body.
TransportError == [err |-> TRUE]

Answer(status, body) == [err |-> FALSE, status |-> status, body |-> body]

\* The return value None of make_request
None == [err |-> TRUE]

\* make_request: the response, or None on an unsupported verb, a transport
\* error or a 4xx/5xx status (raise_for_status)
make_request(method, raw) ==
    IF method \notin {"GET", "POST"} THEN None
    ELSE IF raw.err THEN None
    ELSE IF raw.status >= 400 THEN None
    ELSE raw

\* Bodies the messaging API can answer with
TelegramBodies == {"ok_true", "ok_false", "ok_absent", "not_json", "not_dict"}

TelegramAnswers ==
    {TransportError} \cup {Answer(200, b) : b \in TelegramBodies} \cup {Answer(500, "ok_false")}

\* response.json().get("ok"): its truth value, or the exception it raises
JsonGetOk(body) ==
    CASE body = "ok_true"   -> "True"
      [] body = "ok_false"  -> "False"
      [] body = "ok_absent" -> "False"
      [] body = "not_json"  -> "JSONDecodeError"
      [] body = "not_dict"  -> "AttributeError"

ExcText(e) == IF e = "JSONDecodeError" THEN JsonErrText ELSE AttrErrText

\* The result of a send: what it returned or that it raised, whether a
\* request left the process, and the text of the exception.
Returned(v, net) == [res |-> v, net |-> net, exc |-> <<>>]

Raised(e) == [res |-> "raise", net |-> TRUE, exc |-> ExcText(e)]

\* send_telegram_message(text_message) under configuration c when the wire
\* answers raw
send_telegram_message(c, raw) ==
    IF ~(c["BOT_TOKEN"] /\ c["CHAT_ID"]) THEN Returned("False", FALSE)
    ELSE LET response == make_request("POST", raw) IN
         IF response.err THEN Returned("False", TRUE)
         ELSE LET ok == JsonGetOk(response.body) IN
              IF ok \in {"JSONDecodeError", "AttributeError"} THEN Raised(ok)
              ELSE Returned(ok, TRUE)

\* send_telegram_audio(audio_bytes, caption): requests.post directly, inside
\* try ... except requests.exceptions.RequestException.  Whether the
\* decoding error of response.json() is a RequestException depends on the
\* installed requests (it is from 2.27 on): jsonErrCaught.
send_telegram_audio(c, raw, jsonErrCaught) ==
    IF ~(c["BOT_TOKEN"] /\ c["CHAT_ID"]) THEN Returned("False", FALSE)
    ELSE IF raw.err THEN Returned("False", TRUE)
    ELSE IF raw.status >= 400 THEN Returned("False", TRUE)
    ELSE LET ok == JsonGetOk(raw.body) IN
         IF ok = "JSONDecodeError"
         THEN (IF jsonErrCaught THEN Returned("False", TRUE) ELSE Raised(ok))
         ELSE IF ok = "AttributeError" THEN Raised(ok)
         ELSE Returned(ok, TRUE)

\* caption[:1024]
TelegramCaptionLimit == 1024

PostedCaption(caption) == Slice(caption, 0, TelegramCaptionLimit)

-----------------------------------------------------------------------------
(* Feed Fetcher *)

\* timedelta(days=1), in hours
Day == 24

\* An optional value: <<>> when absent (None, a missing key), <<v>> when present
Absent == <<>>

Present(v) == <<v>>

\* a or b
Or(a, b) == IF a # Absent THEN a ELSE b

\* time.mktime(struct): the fields of the struct read as local time, so an
\* instant t written in UTC comes out as t - utcoffset
mktime(t, off) == t - off

\* The test of the loop body: the entry has a parsable date and that date is
\* not before twenty_four_hours_ago
IsRecent(entry, t0, off) ==
    LET published_time_struct == Or(entry.published_parsed, entry.updated_parsed) IN
    /\ published_time_struct # Absent
    /\ mktime(published_time_struct[1], off) >= t0 - Day

\* fetch_rss_entries: the entries kept, in feed order
fetch_rss_entries(entries, t0, off) ==
    IF entries = <<>> THEN <<>>
    ELSE SelectSeq(entries, LAMBDA entry : IsRecent(entry, t0, off))

\* The instants "now" the model runs at, the zones the host can be in, and
\* the feeds it can be given
Clock == {100}

UtcOffsets == {-1, 0, 1}

Entries(t0) ==
    [published_parsed : {Absent, Present(t0 - Day - 1), Present(t0 - Day), Present(t0 + 1)},
     updated_parsed   : {Absent, Present(t0 - 1)},
     link             : BOOLEAN]

Feeds(t0) == UNION {[1..n -> Entries(t0)] : n \in 0..MaxEntries}

-----------------------------------------------------------------------------
(* Article Extractor *)

\* len(text) > 200
MinFallbackLen == 200

\* A fetched page: whether parsing raises, and the visible text of each
\* element the extractor looks for (Absent when the page has no such element)
Page(bad, entry_body, main, article, body) ==
    [parse_error |-> bad, entry_body |-> entry_body, main |-> main,
     article |-> article, body |-> body]

Pages ==
    { Page(FALSE, Present(Text(201, 0)), Absent, Absent, Present(Text(201, 0))),
      Page(FALSE, Present(<<>>), Absent, Absent, Present(Text(201, 0))),
      Page(FALSE, Absent, Present(Text(201, 0)), Absent, Present(Text(200, 0))),
      Page(FALSE, Absent, Absent, Absent, Present(Text(200, 0))),
      Page(FALSE, Absent, Absent, Absent, Absent),
      Page(TRUE, Absent, Absent, Absent, Absent) }

PageAnswers == {TransportError} \cup {Answer(200, p) : p \in Pages} \cup {Answer(404, p) : p \in Pages}

\* extract_text_from_url: Present(text), or Absent for None
extract_text_from_url(raw) ==
    LET response == make_request("GET", raw) IN
    IF response.err THEN Absent
    ELSE LET soup == response.body IN
         IF soup.parse_error THEN Absent
         ELSE IF soup.entry_body # Absent THEN soup.entry_body
         ELSE LET main_content == Or(soup.main, Or(soup.article, soup.body)) IN
              IF main_content # Absent /\ Len(main_content[1]) > MinFallbackLen
              THEN main_content
              ELSE Absent

-----------------------------------------------------------------------------
(* Narrative Generator *)

\* None and "" alike: what main's "if not narrative" takes for a failure
NoNarrative == <<>>

\* The narratives the summarizer can answer with
Narratives ==
    { SummaryX,
      Text(9, 4),
      Text(200, 0),
      Text(201, 0),
      <<32>>,
      Text(4000, 0),
      Text(4001, 0),
      Text(9000, 10) }

\* Bodies of the summarizer's answer
LlmBodies ==
    { [kind |-> "not_json", content |-> <<>>],
      [kind |-> "no_choices", content |-> <<>>],
      [kind |-> "empty_choices", content |-> <<>>],
      [kind |-> "no_message", content |-> <<>>],
      [kind |-> "choices", content |-> <<>>] }
    \cup {[kind |-> "choices", content |-> n] : n \in Narratives}

LlmAnswers ==
    {TransportError} \cup {Answer(200, b) : b \in LlmBodies}
        \cup {Answer(500, [kind |-> "no_choices", content |-> <<>>])}

\* get_llm_narrative: whether a request is made, and the narrative returned
get_llm_narrative(c, raw) ==
    IF ~c["DS_API_KEY"] THEN [net |-> FALSE, ret |-> NoNarrative]
    ELSE LET response == make_request("POST", raw) IN
         IF response.err THEN [net |-> TRUE, ret |-> NoNarrative]
         ELSE IF response.body.kind = "choices"
              THEN [net |-> TRUE, ret |-> response.body.content]
              ELSE [net |-> TRUE, ret |-> NoNarrative]

-----------------------------------------------------------------------------
(* Speech Synthesizer *)

\* No audio: None
NoAudio == <<>>

Mp3 == <<255, 251>>

TtsAnswers ==
    {TransportError, Answer(200, Mp3), Answer(200, <<>>), Answer(204, <<>>), Answer(500, <<>>)}

\* text_to_speech_elevenlabs: whether a request is made, and the bytes returned
text_to_speech_elevenlabs(c, text, raw) ==
    IF ~c["ELEVENLABS_API_KEY"] \/ ~c["ELEVENLABS_VOICE_ID"] THEN [net |-> FALSE, ret |-> NoAudio]
    ELSE IF ~StripNonEmpty(text) THEN [net |-> FALSE, ret |-> NoAudio]
    ELSE LET response == make_request("POST", raw) IN
         IF response.err THEN [net |-> TRUE, ret |-> NoAudio]
         ELSE IF response.status = 200 /\ response.body # <<>>
              THEN [net |-> TRUE, ret |-> response.body]
              ELSE [net |-> TRUE, ret |-> NoAudio]

-----------------------------------------------------------------------------
(* Orchestrator: the pure parts of main() *)

\* len(audio_caption_summary) > 200
CaptionLimit == 200

\* max_len = 4000
max_len == 4000

\* narrative.split('\n')[0], cut to 200 characters plus "..." when longer
AudioCaptionSummary_uncut(n) == FirstLine(n)

AudioCaptionSummary(n) ==
    LET first == FirstLine(n) IN
    IF Len(first) > CaptionLimit THEN Slice(first, 0, CaptionLimit) \o Ellipsis ELSE first

\* f"Your 24hr News Summary:\n{audio_caption_summary}"
AudioCaption(summary) == CaptionHeader \o summary

\* if not audio_sent
NeedTextFallback_always(sent) == TRUE

NeedTextFallback(sent) == ~sent

\* f"[Part {i // max_len + 1}]\n{chunk}" with chunk = narrative[i:i + max_len]
PartMessage(n, k) ==
    PartOpen \o Decimal(k \div max_len + 1) \o PartClose \o Slice(n, k, k + max_len)

\* f"CRITICAL ERROR in news bot: {e}. Check logs."
CriticalMessage(e) == CriticalPrefix \o e \o CriticalSuffix

\* One entry of the log: the operation, the call site in news.py (its line),
\* the text it carried, its result, and whether a request left the process
Event(op, site, text, res, net) ==
    [op |-> op, site |-> site, text |-> text, res |-> res, net |-> net]

\* Where control goes after a send_telegram_message at the end of main():
\* to the handler of __main__ when it raised, to the end otherwise
AfterSend(r) == IF r.res = "raise" THEN "except" ELSE "done"

-----------------------------------------------------------------------------
(* The process *)

Init ==
    /\ pc = "main"
    /\ now \in Clock
    /\ cfg \in Configs
    /\ feed_data = <<>>
    /\ utcoffset = 0
    /\ recent_entries = <<>>
    /\ remaining = <<>>
    /\ all_extracted_text = <<>>
    /\ narrative = NoNarrative
    /\ audio_caption_summary = <<>>
    /\ audio_data = NoAudio
    /\ audio_sent = FALSE
    /\ i = 0
    /\ exc = <<>>
    /\ log = <<>>

\* main(), lines 304-309: the config check
ConfigCheck ==
    /\ pc = "main"
    /\ pc' = IF ConfigComplete(cfg) THEN "fetch" ELSE "done"
    /\ UNCHANGED <<now, cfg, feed_data, utcoffset, recent_entries, remaining,
                   all_extracted_text, narrative, audio_caption_summary,
                   audio_data, audio_sent, i, exc, log>>

\* recent_entries = fetch_rss_entries(rss_url): the state is the one at the
\* return statement, the locals of fetch_rss_entries still in sight
FetchRssEntries ==
    /\ pc = "fetch"
    /\ \E entries \in Feeds(now), off \in UtcOffsets :
        /\ feed_data' = entries
        /\ utcoffset' = off
        /\ recent_entries' = fetch_rss_entries(entries, now, off)
    /\ log' = Append(log, Event("feedparser.parse", 107, <<>>, "ok", TRUE))
    /\ pc' = "fetched"
    /\ UNCHANGED <<now, cfg, remaining, all_extracted_text, narrative,
                   audio_caption_summary, audio_data, audio_sent, i, exc>>

\* main(), lines 312-315: nothing recent, one notice, return
NoRecentEntries_silent ==
    /\ pc = "fetched"
    /\ recent_entries = <<>>
    /\ pc' = "done"
    /\ feed_data' = <<>>
    /\ utcoffset' = 0
    /\ UNCHANGED <<now, cfg, recent_entries, remaining, all_extracted_text, narrative,
                   audio_caption_summary, audio_data, audio_sent, i, exc, log>>

NoRecentEntries ==
    /\ pc = "fetched"
    /\ recent_entries = <<>>
    /\ \E raw \in TelegramAnswers :
        LET r == send_telegram_message(cfg, raw) IN
        /\ log' = Append(log, Event("send_telegram_message", 314, NoNewArticles, r.res, r.net))
        /\ exc' = r.exc
        /\ pc' = AfterSend(r)
    /\ feed_data' = <<>>
    /\ utcoffset' = 0
    /\ UNCHANGED <<now, cfg, recent_entries, remaining, all_extracted_text, narrative,
                   audio_caption_summary, audio_data, audio_sent, i>>

\* main(), lines 317-318: the extraction loop starts over recent_entries.
\* fetch_rss_entries has returned, its locals are gone; main reads
\* recent_entries only through the loop, which holds it from here on.
BeginExtract ==
    /\ pc = "fetched"
    /\ recent_entries # <<>>
    /\ all_extracted_text' = <<>>
    /\ remaining' = recent_entries
    /\ recent_entries' = <<>>
    /\ feed_data' = <<>>
    /\ utcoffset' = 0
    /\ pc' = "extract"
    /\ UNCHANGED <<now, cfg, narrative, audio_caption_summary, audio_data,
                   audio_sent, i, exc, log>>

\* main(), lines 318-326: one iteration of the loop
ExtractEntry ==
    /\ pc = "extract"
    /\ remaining # <<>>
    /\ LET entry == Head(remaining) IN
       IF entry.link
       THEN \E raw \in PageAnswers :
               LET text == extract_text_from_url(raw) IN
               /\ all_extracted_text' =
                      IF text # Absent /\ text[1] # <<>>
                      THEN Append(all_extracted_text, text[1])
                      ELSE all_extracted_text
               /\ log' = Append(log, Event("GET", 140, <<>>, "ok", TRUE))
       ELSE UNCHANGED <<all_extracted_text, log>>
    /\ remaining' = Tail(remaining)
    /\ UNCHANGED <<pc, now, cfg, feed_data, utcoffset, recent_entries, narrative,
                   audio_caption_summary, audio_data, audio_sent, i, exc>>

\* main(), lines 328-331: nothing extracted, one notice, return
NoExtractedText ==
    /\ pc = "extract"
    /\ remaining = <<>>
    /\ all_extracted_text = <<>>
    /\ \E raw \in TelegramAnswers :
        LET r == send_telegram_message(cfg, raw) IN
        /\ log' = Append(log, Event("send_telegram_message", 330, NoTextExtracted, r.res, r.net))
        /\ exc' = r.exc
        /\ pc' = AfterSend(r)
    /\ UNCHANGED <<now, cfg, feed_data, utcoffset, recent_entries, remaining,
                   all_extracted_text, narrative, audio_caption_summary,
                   audio_data, audio_sent, i>>

\* main(), lines 333-337: narrative = get_llm_narrative(full_text_corpus)
Summarize ==
    /\ pc = "extract"
    /\ remaining = <<>>
    /\ all_extracted_text # <<>>
    /\ \E raw \in LlmAnswers :
        LET r == get_llm_narrative(cfg, raw) IN
        /\ narrative' = r.ret
        /\ log' = IF r.net THEN Append(log, Event("POST llm", 197, <<>>, "ok", TRUE)) ELSE log
        /\ pc' = IF r.ret = NoNarrative THEN "no_narrative" ELSE "narrated"
    /\ UNCHANGED <<now, cfg, feed_data, utcoffset, recent_entries, remaining,
                   all_extracted_text, audio_caption_summary, audio_data,
                   audio_sent, i, exc>>

\* main(), lines 337-342: no narrative, one notice, return
SummarizerFailed ==
    /\ pc = "no_narrative"
    /\ \E raw \in TelegramAnswers :
        LET r == send_telegram_message(cfg, raw) IN
        /\ log' = Append(log, Event("send_telegram_message", 341, fallback_text, r.res, r.net))
        /\ exc' = r.exc
        /\ pc' = AfterSend(r)
    /\ UNCHANGED <<now, cfg, feed_data, utcoffset, recent_entries, remaining,
                   all_extracted_text, narrative, audio_caption_summary,
                   audio_data, audio_sent, i>>

\* main(), lines 344-352 and 358-361: the caption, the synthesis, and the
\* branch on its result
Synthesize ==
    /\ pc = "narrated"
    /\ audio_caption_summary' = AudioCaptionSummary(narrative)
    /\ \E raw \in TtsAnswers :
        LET r == text_to_speech_elevenlabs(cfg, narrative, raw) IN
        /\ audio_data' = r.ret
        /\ log' = IF r.net THEN Append(log, Event("POST tts", 246, <<>>, "ok", TRUE)) ELSE log
        /\ pc' = IF r.ret # NoAudio THEN "audio"
                 ELSE IF NeedTextFallback(FALSE) THEN "text" ELSE "done"
    /\ audio_sent' = FALSE
    /\ i' = 0
    /\ UNCHANGED <<now, cfg, feed_data, utcoffset, recent_entries, remaining,
                   all_extracted_text, narrative, exc>>

\* main(), lines 353-361: the audio send and the branch on its result
SendAudio ==
    /\ pc = "audio"
    /\ \E raw \in TelegramAnswers, jsonErrCaught \in BOOLEAN :
        LET r == send_telegram_audio(cfg, raw, jsonErrCaught) IN
        /\ log' = Append(log, Event("send_telegram_audio", 353,
                                    PostedCaption(AudioCaption(audio_caption_summary)),
                                    r.res, r.net))
        /\ exc' = r.exc
        /\ audio_sent' = (r.res = "True")
        /\ pc' = IF r.res = "raise" THEN "except"
                 ELSE IF NeedTextFallback(r.res = "True") THEN "text" ELSE "done"
    /\ UNCHANGED <<now, cfg, feed_data, utcoffset, recent_entries, remaining,
                   all_extracted_text, narrative, audio_caption_summary,
                   audio_data, i>>

\* main(), lines 371-373: the narrative fits one message
SendNarrative ==
    /\ pc = "text"
    /\ ~(Len(narrative) > max_len)
    /\ \E raw \in TelegramAnswers :
        LET r == send_telegram_message(cfg, raw) IN
        /\ log' = Append(log, Event("send_telegram_message", 372, narrative, r.res, r.net))
        /\ exc' = r.exc
        /\ pc' = AfterSend(r)
    /\ UNCHANGED <<now, cfg, feed_data, utcoffset, recent_entries, remaining,
                   all_extracted_text, narrative, audio_caption_summary,
                   audio_data, audio_sent, i>>

\* main(), lines 366-370: one iteration of the chunk loop, the send and the
\* sleep after it; the loop ends when range(0, len(narrative), max_len) does
SendChunk ==
    /\ pc = "text"
    /\ Len(narrative) > max_len
    /\ i < Len(narrative)
    /\ \E raw \in TelegramAnswers :
        LET r == send_telegram_message(cfg, raw)
            sent == Append(log, Event("send_telegram_message", 369,
                                      PartMessage(narrative, i), r.res, r.net))
        IN
        /\ exc' = r.exc
        /\ IF r.res = "raise"
           THEN /\ log' = sent
                /\ pc' = "except"
                /\ i' = i
           ELSE /\ log' = Append(sent, Event("sleep", 370, <<>>, "ok", FALSE))
                /\ i' = i + max_len
                /\ pc' = IF i' < Len(narrative) THEN "text" ELSE "done"
    /\ UNCHANGED <<now, cfg, feed_data, utcoffset, recent_entries, remaining,
                   all_extracted_text, narrative, audio_caption_summary,
                   audio_data, audio_sent>>

\* __main__, lines 398-404: the handler of whatever main() raised; what its
\* own send raises is caught and logged
CriticalErrorHandler ==
    /\ pc = "except"
    /\ \E raw \in TelegramAnswers :
        LET r == send_telegram_message(cfg, raw) IN
        log' = Append(log, Event("send_telegram_message", 402, CriticalMessage(exc), r.res, r.net))
    /\ pc' = "done"
    /\ UNCHANGED <<now, cfg, feed_data, utcoffset, recent_entries, remaining,
                   all_extracted_text, narrative, audio_caption_summary,
                   audio_data, audio_sent, i, exc>>

Next ==
    \/ ConfigCheck
    \/ FetchRssEntries
    \/ NoRecentEntries
    \/ BeginExtract
    \/ ExtractEntry
    \/ NoExtractedText
    \/ Summarize
    \/ SummarizerFailed
    \/ Synthesize
    \/ SendAudio
    \/ SendNarrative
    \/ SendChunk
    \/ CriticalErrorHandler

Spec == Init /\ [][Next]_vars

-----------------------------------------------------------------------------
(* Reading the log *)

IsTextSend(e) == e.op = "send_telegram_message"

IsAudioSend(e) == e.op = "send_telegram_audio"

\* A text send that carries the narrative (whole, or one part of it)
IsNarrativeSend(e) == IsTextSend(e) /\ e.site \in {369, 372}

IsSleep(e) == e.op = "sleep"

TextSends == SelectSeq(log, IsTextSend)

AudioSends == SelectSeq(log, IsAudioSend)

NarrativeSends == SelectSeq(log, IsNarrativeSend)

Count(op) == Cardinality({k \in DOMAIN log : log[k].op = op})

AllSecretsSet == \A s \in Secrets : cfg[s]

Ended == pc = "done"

AudioDelivered == \E k \in DOMAIN log : IsAudioSend(log[k]) /\ log[k].res = "True"

\* ceil(L / 4000)
PartsOf(n) == (Len(n) + 3999) \div 4000

\* The messages the text path owes for narrative n
OwedMessages(n) ==
    IF Len(n) <= 4000 THEN <<n>>
    ELSE [k \in 1..PartsOf(n) |->
            <<91, 80, 97, 114, 116, 32>> \o Decimal(k) \o <<93, 10>>
                \o SubSeq(n, (k - 1) * 4000 + 1, Min(k * 4000, Len(n)))]

\* Every owed message was sent, in order, and nothing else of the narrative
NarrativeFullySent ==
    /\ Len(NarrativeSends) = Len(OwedMessages(narrative))
    /\ \A k \in DOMAIN NarrativeSends : NarrativeSends[k].text = OwedMessages(narrative)[k]

TextDelivered ==
    /\ NarrativeFullySent
    /\ \A k \in DOMAIN NarrativeSends : NarrativeSends[k].res = "True"

\* No send of the run raised
NoSendRaised == \A k \in DOMAIN log : log[k].res # "raise"

-----------------------------------------------------------------------------
(* C1 *)

\* C1 (as stated): a run that reached Synthesize & Deliver ends with exactly
\* one of audio delivered, text delivered: never both, never neither.
C1_ExactlyOneDelivered ==
    (Ended /\ narrative # NoNarrative) => (AudioDelivered /\ ~TextDelivered) \/ (~AudioDelivered /\ TextDelivered)

\* C1 (amended): at most one of audio and text is delivered: once the audio
\* send has reported success no text send of the narrative is made, and every
\* text send of the narrative comes after the synthesis and the audio send
\* have ended.
C1_AtMostOneSequential ==
    /\ AudioDelivered => NarrativeSends = <<>>
    /\ \A j \in DOMAIN log, k \in DOMAIN log :
          (IsNarrativeSend(log[j]) /\ (IsAudioSend(log[k]) \/ log[k].op = "POST tts")) => k < j

\* The audio send reported failure and the narrative then went out as text
C1_Witness ==
    /\ Ended
    /\ \E k \in DOMAIN log : IsAudioSend(log[k]) /\ log[k].res = "False"
    /\ TextDelivered

-----------------------------------------------------------------------------
(* C2 *)

\* C2: when one of the five secrets is empty the run stops at the config
\* check: it makes no call of any kind (no feed fetch, article fetch,
\* summarizer, synthesis, text send or audio send) and never gets past it.
C2_NoCallWithoutConfig ==
    (\E s \in Secrets : ~cfg[s]) => log = <<>> /\ pc \in {"main", "done"}

\* A run that ended at the config check with only the voice id missing
C2_Witness ==
    /\ Ended
    /\ ~cfg["ELEVENLABS_VOICE_ID"]
    /\ \A s \in Secrets \ {"ELEVENLABS_VOICE_ID"} : cfg[s]

-----------------------------------------------------------------------------
(* C3 *)

\* The run ended otherwise than with the narrative delivered
EndedInFailure == Ended /\ ~AudioDelivered /\ ~TextDelivered

NotificationAttempted == \E k \in DOMAIN log : IsTextSend(log[k]) \/ IsAudioSend(log[k])

\* C3 (as stated): every run that ends in failure, a missing configuration
\* included, has attempted at least one chat notification.
C3_EveryFailureNotified == EndedInFailure => NotificationAttempted

\* C3 (amended): every run that ends in failure after passing the config
\* check has made at least one send_telegram_message or send_telegram_audio
\* call that reached the network; a run stopped by a missing configuration
\* makes none.
C3_FailureNotifiedPastConfig ==
    EndedInFailure =>
        IF AllSecretsSet
        THEN \E k \in DOMAIN log : (IsTextSend(log[k]) \/ IsAudioSend(log[k])) /\ log[k].net
        ELSE ~NotificationAttempted

\* A run with no recent entry ended, its notice refused by the messaging API
C3_Witness ==
    /\ Ended
    /\ Len(log) = 2
    /\ log[2].site = 314
    /\ log[2].res = "False"

-----------------------------------------------------------------------------
(* C4 *)

\* The audio attempt failed by returning: no audio, or a send that reported
\* failure
AudioAttemptFailed ==
    /\ narrative # NoNarrative
    /\ \/ \E k \in DOMAIN log : IsAudioSend(log[k]) /\ log[k].res = "False"
       \/ (pc \in {"text", "done", "except"} /\ audio_data = NoAudio)

\* C4: when the narrative was produced and the audio attempt failed, the run
\* has by its end sent the full narrative through the text path (one message
\* up to 4000 characters, the numbered parts otherwise); a text send of the
\* narrative is made only after the audio attempt failed, never after the
\* audio send reported success.
C4_FallbackSendsFullNarrative ==
    /\ (Ended /\ AudioAttemptFailed) => NarrativeFullySent
    /\ NarrativeSends # <<>> => AudioAttemptFailed /\ ~AudioDelivered

\* What remains of C4 on the runs in which no send raises
C4_FallbackWhenNoSendRaises == NoSendRaised => C4_FallbackSendsFullNarrative

-----------------------------------------------------------------------------
(* C5 *)

SynthesisSucceeded == pc \in {"audio", "text", "done", "except"} /\ audio_data # NoAudio

\* C5 (as stated): after a successful synthesis exactly one audio send is
\* made, its caption is the narrative's first line, cut to 200 characters when
\* longer, and no text send of the narrative is made.
C5_ScenarioA ==
    (Ended /\ SynthesisSucceeded) =>
        /\ Len(AudioSends) = 1
        /\ \E m \in 0..Len(narrative) :
              /\ m = Len(narrative) \/ narrative[m + 1] = 10
              /\ \A k \in 1..m : narrative[k] # 10
              /\ AudioSends[1].text = SubSeq(narrative, 1, Min(200, m))
        /\ NarrativeSends = <<>>

\* C5 (amended): after a successful synthesis exactly one audio send is made
\* by the time main() is left; its caption is "Your 24hr News Summary:" and a
\* line break followed by the narrative's first line, or by that line's first
\* 200 characters and "..." when it is longer; and no text send of the
\* narrative is made unless that audio send reported failure.
C5_ScenarioAWithHeader ==
    (SynthesisSucceeded /\ pc # "audio") =>
        /\ Len(AudioSends) = 1
        /\ \E m \in 0..Min(Len(narrative), 201) :
              LET first == SubSeq(narrative, 1, m) IN
              /\ \A k \in 1..m : first[k] # 10
              /\ IF m = 201
                 THEN AudioSends[1].text = CaptionHeader \o SubSeq(first, 1, 200) \o <<46, 46, 46>>
                 ELSE /\ m = Len(narrative) \/ narrative[m + 1] = 10
                      /\ AudioSends[1].text = CaptionHeader \o first
        /\ NarrativeSends # <<>> => AudioSends[1].res = "False"

\* Scenario A with a first line of 201 characters: audio delivered
C5_Witness ==
    /\ Ended
    /\ narrative = Text(201, 0)
    /\ AudioDelivered

-----------------------------------------------------------------------------
(* C6 *)

\* The run took the branch of an empty recent_entries
NoRecentBranch == \E k \in DOMAIN log : log[k].site = 314

\* C6: a run whose fetch returned no recent entry makes exactly one text
\* send, the fixed "no new articles" message, and no article fetch, no
\* summarizer call, no synthesis call and no audio send.
C6_ScenarioB ==
    (Ended /\ NoRecentBranch) =>
        /\ Len(TextSends) = 1
        /\ TextSends[1].text = NoNewArticles
        /\ \A k \in DOMAIN log : log[k].op \in {"feedparser.parse", "send_telegram_message"}

\* What remains of C6 on the runs in which no send raises
C6_ScenarioBWhenNoSendRaises == NoSendRaised => C6_ScenarioB

-----------------------------------------------------------------------------
(* C7 *)

\* The summarizer was called and gave no narrative
SummarizerStepFailed == Count("POST llm") >= 1 /\ narrative = NoNarrative

\* C7: a run whose summarizer step failed makes exactly one text send, the
\* fixed failure notice, calls the summarizer once, and attempts neither
\* synthesis nor an audio send.
C7_ScenarioC ==
    (Ended /\ SummarizerStepFailed) =>
        /\ Len(TextSends) = 1
        /\ TextSends[1].text = fallback_text
        /\ Count("POST llm") = 1
        /\ Count("POST tts") = 0
        /\ AudioSends = <<>>

\* What remains of C7 on the runs in which no send raises
C7_ScenarioCWhenNoSendRaises == NoSendRaised => C7_ScenarioC

-----------------------------------------------------------------------------
(* C8 *)

\* The run took the text path and has ended
TextPathTaken == Ended /\ AudioAttemptFailed

\* C8: on the text path a narrative of more than 4000 characters goes out as
\* exactly ceil(L / 4000) messages, the k-th being "[Part k]", a line break
\* and characters (k-1)*4000 .. k*4000-1, each followed by a pause; a
\* narrative of at most 4000 characters goes out as one unprefixed message.
C8_Chunking ==
    TextPathTaken =>
        /\ NarrativeFullySent
        /\ Len(narrative) > 4000 =>
              /\ Count("sleep") = PartsOf(narrative)
              /\ \A k \in DOMAIN log : IsNarrativeSend(log[k]) => k < Len(log) /\ IsSleep(log[k + 1])
        /\ Len(narrative) <= 4000 => Count("sleep") = 0

\* What remains of C8 on the runs in which no send raises
C8_ChunkingWhenNoSendRaises == NoSendRaised => C8_Chunking

-----------------------------------------------------------------------------
(* C9 *)

\* C9: send_telegram_message never raises: every call of it returns True or
\* False.
C9_SendNeverRaises ==
    \A k \in DOMAIN log : IsTextSend(log[k]) => log[k].res \in {"True", "False"}

-----------------------------------------------------------------------------
(* C10 *)

\* The entry has an instant t (published, else updated) with now - 24h <= t <= now
InWindow(entry) ==
    LET stamp == IF entry.published_parsed # <<>> THEN entry.published_parsed
                 ELSE entry.updated_parsed
    IN  stamp # <<>> /\ now - 24 <= stamp[1] /\ stamp[1] <= now

\* C10: fetch_rss_entries returns exactly the entries whose instant lies in
\* [now - 24h, now], in feed order.
C10_ExactlyTheWindow ==
    pc = "fetched" => recent_entries = SelectSeq(feed_data, InWindow)

\* The entry has an instant t (published, else updated) with now - 24h <= t
NotOlderThanADay(entry) ==
    LET stamp == IF entry.published_parsed # <<>> THEN entry.published_parsed
                 ELSE entry.updated_parsed
    IN  stamp # <<>> /\ now - 24 <= stamp[1]

\* What remains of C10 on a host whose zone is UTC: the entries not older
\* than 24 hours are kept, those dated after now among them
C10_LowerBoundOnUtcHost ==
    (pc = "fetched" /\ utcoffset = 0) => recent_entries = SelectSeq(feed_data, NotOlderThanADay)

====
